---- MODULE Spec2Model ----
(***************************************************************************)
(* Model of the recipe API controller (recipeController.js), the bulk      *)
(* loader (utils/parser.js) and the Recipe schema (models/Recipe.js).      *)
(*                                                                         *)
(* A string is the sequence of its characters; a sort parameter is the     *)
(* sequence of its pieces, each a separator ":" or a word without one.  A  *)
(* JavaScript value is a record [t, v]: t is the type tag and v the        *)
(* payload (the characters of a string, the characters of String(array)    *)
(* for an array, <<m, e>> for the number m / 10^e).  The store's and the   *)
(* schema's behaviour is modelled at the call that relies on it.           *)
(***************************************************************************)
EXTENDS Integers, Sequences, FiniteSets, TLC

VARIABLES
  filterStr, parsed, ppc,  \* parseNumericFilter on its own: argument, result, position
  query,                   \* req.query of the request in flight
  route,                   \* the handler the router gave it to
  hpc,                     \* the handler's position
  built,                   \* the handler's locals: page, limit, sortBy, filter
  total,                   \* getRecipes' local total
  response,                \* what the handler sent
  store,                   \* the collection
  raw, fld,                \* the raw value the write requests and the file carry, and its field
  nextId,                  \* the identifier the store gives the next document
  cleaned,                 \* the array loadRecipes returned last
  written                  \* what the last write handler sent: status and document

parseVars == <<filterStr, parsed, ppc>>
readVars == <<query, route, hpc, built, total, response>>
writeVars == <<raw, fld, nextId, cleaned, written>>
apiVars == <<query, route, hpc, built, total, response, store, raw, fld, nextId, cleaned, written>>
vars == <<filterStr, parsed, ppc, query, route, hpc, built, total, response, store,
          raw, fld, nextId, cleaned, written>>

(***************************************************************************)
(* Bounds                                                                  *)
(***************************************************************************)
\* longest raw filter string given to parseNumericFilter on its own
MaxLen == 4
\* longest page or limit string of a request
MaxNumLen == 2
\* most pieces in the sort string of a request
MaxSortLen == 3
\* longest rating or total_time string of a request
MaxFilterLen == 2
\* longest stored nutrients.calories string
MaxCalLen == 3
\* longest title parameter
MaxPatternLen == 2
\* longest stored title
MaxTitleLen == 3
\* longest raw value of a numeric field in a body or in the file
MaxRawLen == 2
\* documents ever inserted in one run
MaxIds == 3
\* documents in the collection at once
MaxStore == 2

(***************************************************************************)
(* JavaScript values                                                       *)
(***************************************************************************)
Undefined == [t |-> "undefined", v |-> <<>>]
Null == [t |-> "null", v |-> <<>>]
NaN == [t |-> "nan", v |-> <<>>]
Str(s) == [t |-> "str", v |-> s]
Arr(s) == [t |-> "arr", v |-> s]
RECURSIVE Pow10(_)
Pow10(e) == IF e = 0 THEN 1 ELSE 10 * Pow10(e - 1)
RECURSIVE Normalize(_, _)
\* the number m / 10^e with no trailing zero in its fraction
Normalize(m, e) == IF e > 0 /\ m % 10 = 0 THEN Normalize(m \div 10, e - 1) ELSE <<m, e>>
Num(m, e) == [t |-> "num", v |-> Normalize(m, e)]

\* all sequences over S of length at most n
SeqsUpTo(S, n) == UNION {[1..k -> S] : k \in 0..n}
Range(s) == {s[i] : i \in 1..Len(s)}

\* !x
Falsy(x) == x.t \in {"undefined", "null", "nan"} \/ (x.t = "str" /\ x.v = <<>>)
                \/ (x.t = "num" /\ x.v[1] = 0)

(***************************************************************************)
(* Characters                                                              *)
(***************************************************************************)
Digits == {"0", "1", "2", "3", "4", "5", "6", "7", "8", "9"}
DigitVal(c) == CASE c = "0" -> 0 [] c = "1" -> 1 [] c = "2" -> 2 [] c = "3" -> 3
                 [] c = "4" -> 4 [] c = "5" -> 5 [] c = "6" -> 6 [] c = "7" -> 7
                 [] c = "8" -> 8 [] c = "9" -> 9
\* the characters \s matches, among those the model draws
Spaces == {" "}

Drop(s, n) == SubSeq(s, n + 1, Len(s))
Take(s, n) == SubSeq(s, 1, n)
IsPrefix(p, s) == Len(p) <= Len(s) /\ Take(s, Len(p)) = p
RECURSIVE RunLen(_, _)
\* the length of the longest prefix of s made of characters of S (a greedy S*)
RunLen(s, S) == IF s # <<>> /\ Head(s) \in S THEN 1 + RunLen(Tail(s), S) ELSE 0
RECURSIVE DigitsValue(_, _)
DigitsValue(s, acc) == IF s = <<>> THEN acc ELSE DigitsValue(Tail(s), 10 * acc + DigitVal(Head(s)))

(***************************************************************************)
(* parseNumericFilter                                                      *)
(***************************************************************************)
NoMatch == [ok |-> FALSE, op |-> <<>>, num |-> <<>>]

\* the match without its $ anchor: what follows the number is ignored
MatchNumberPrefix(s) ==
  LET r1 == Drop(s, RunLen(s, Spaces))
      n1 == RunLen(r1, Digits)
      r2 == Drop(r1, n1)
      n2 == IF r2 # <<>> /\ Head(r2) = "." THEN RunLen(Tail(r2), Digits) ELSE 0
  IN  IF n1 = 0 THEN <<>>
      ELSE IF n2 > 0 THEN Take(r1, n1 + 1 + n2)
      ELSE Take(r1, n1)

\* \s*(\d+(\.\d+)?)$ on s; every quantifier is greedy and none can give back
\* a character to what follows it, so the match is the greedy one or none
MatchNumberToEnd(s) ==
  LET r1 == Drop(s, RunLen(s, Spaces))
      n1 == RunLen(r1, Digits)
      r2 == Drop(r1, n1)
      n2 == IF r2 # <<>> /\ Head(r2) = "." THEN RunLen(Tail(r2), Digits) ELSE 0
  IN  IF n1 = 0 THEN <<>>
      ELSE IF r2 = <<>> THEN Take(r1, n1)
      ELSE IF n2 > 0 /\ Len(r2) = 1 + n2 THEN Take(r1, n1 + 1 + n2)
      ELSE <<>>

\* the alternatives of the group (>=|<=|=|>|<), in the order written
OpAlternatives == << <<">", "=">>, <<"<", "=">>, <<"=">>, <<">">>, <<"<">> >>

\* the groups of a match whose operator group is op and whose number is num
Groups(op, num) == IF num = <<>> THEN NoMatch ELSE [ok |-> TRUE, op |-> op, num |-> num]
\* the match that starts with the operator op, if there is one
MatchWith(s, op) == IF IsPrefix(op, s) THEN Groups(op, MatchNumberToEnd(Drop(s, Len(op)))) ELSE NoMatch

RECURSIVE MatchFrom(_, _)
\* try alternative i, i+1, ... of the optional group, then the empty group
MatchFrom(s, i) ==
  IF i > Len(OpAlternatives) THEN MatchWith(s, <<>>)
  ELSE IF MatchWith(s, OpAlternatives[i]).ok THEN MatchWith(s, OpAlternatives[i])
  ELSE MatchFrom(s, i + 1)

\* filterStr.match(/^(>=|<=|=|>|<)?\s*(\d+(\.\d+)?)$/)
RegexMatch(s) == MatchFrom(s, 1)

\* parseFloat of a string digits[.digits]
ParseFloat(s) ==
  LET n1 == RunLen(s, Digits)
      frac == IF n1 < Len(s) THEN Drop(s, n1 + 1) ELSE <<>>
  IN  Num(DigitsValue(Take(s, n1) \o frac, 0), Len(frac))

NoPredicate == [kind |-> "null", op |-> "", val |-> Null]
TypeError == [kind |-> "throw", op |-> "", val |-> Null]
Pred(op, val) == [kind |-> "pred", op |-> op, val |-> val]

\* the switch with the case ">=" missing
SwitchOpNoGte(op, val) ==
  CASE op = <<">">> -> Pred("$gt", val)
    [] op = <<"<">> -> Pred("$lt", val)
    [] op = <<"<", "=">> -> Pred("$lte", val)
    [] OTHER -> Pred("$eq", val)

\* the switch on op
SwitchOp(op, val) ==
  CASE op = <<">">> -> Pred("$gt", val)
    [] op = <<"<">> -> Pred("$lt", val)
    [] op = <<">", "=">> -> Pred("$gte", val)
    [] op = <<"<", "=">> -> Pred("$lte", val)
    [] OTHER -> Pred("$eq", val)

\* the lines after the match: null without one, else op defaults to "="
FromMatch(match) ==
  IF ~match.ok THEN NoPredicate
  ELSE SwitchOp(IF match.op = <<>> THEN <<"=">> ELSE match.op, ParseFloat(match.num))

parseNumericFilter(x) ==
  IF Falsy(x) THEN NoPredicate
  ELSE IF x.t # "str" THEN TypeError   \* an array has no method match
  ELSE FromMatch(RegexMatch(x.v))

(***************************************************************************)
(* The query-building part of getRecipes and searchRecipes                 *)
(***************************************************************************)
QueryParams == {"page", "limit", "sort", "title", "cuisine", "rating", "total_time", "calories"}

\* parseInt(x): String(x), leading whitespace skipped, an optional sign, then
\* the longest run of digits; NaN when there is none
ParseInt(x) ==
  IF x.t \notin {"str", "arr"} THEN NaN
  ELSE LET r1 == Drop(x.v, RunLen(x.v, Spaces))
           neg == r1 # <<>> /\ Head(r1) = "-"
           r2 == IF r1 # <<>> /\ Head(r1) \in {"-", "+"} THEN Tail(r1) ELSE r1
           n == RunLen(r2, Digits)
           mag == DigitsValue(Take(r2, n), 0)
       IN  IF n = 0 THEN NaN ELSE Num(IF neg THEN 0 - mag ELSE mag, 0)

\* n || d
OrDefault(n, d) == IF Falsy(n) THEN Num(d, 0) ELSE n
\* parseInt(x) || d
ParseIntOr(x, d) == OrDefault(ParseInt(x), d)

RECURSIVE Split(_, _)
\* s.split(sep) for a one-piece separator: the parts between the separators
Split(s, sep) ==
  LET n == RunLen(s, {c \in Range(s) : c # sep})
  IN  IF n = Len(s) THEN <<s>> ELSE <<Take(s, n)>> \o Split(Drop(s, n + 1), sep)

NoSort == {}
\* sortBy[field] = dir on a fresh {}: an own key, except that the key
\* "__proto__" names the prototype setter, which ignores a number
AssignKey(field, dir) == IF field = <<"__proto__">> THEN NoSort ELSE {[field |-> field, dir |-> dir]}

\* field = parts[0]; dir = parts[1] === "asc" ? 1 : -1; sortBy[field] = dir
SortFromParts(parts) ==
  AssignKey(parts[1], IF Len(parts) >= 2 /\ parts[2] = <<"asc">> THEN 1 ELSE -1)

\* the sort part: [threw, sortBy]
BuildSort(sort) ==
  IF Falsy(sort) THEN [threw |-> FALSE, sortBy |-> {[field |-> <<"rating">>, dir |-> -1]}]
  ELSE IF sort.t # "str" THEN [threw |-> TRUE, sortBy |-> NoSort]  \* an array has no method split
  ELSE [threw |-> FALSE, sortBy |-> SortFromParts(Split(sort.v, ":"))]

Unset == [kind |-> "unset", op |-> "", val |-> Null]
EmptyFilter == [title |-> Undefined, cuisine |-> Undefined, rating |-> Unset,
                total_time |-> Unset, expr |-> Unset]

\* filter.f = parsed, without the test of parsed
AttachAlways(p) == p

\* if (parsed) filter.f = parsed
AttachIfParsed(p) == IF p.kind = "null" THEN Unset ELSE p
\* if (q.f) { const parsed = parseNumericFilter(q.f); if (parsed) filter.f = parsed; }
NumericConstraint(x) == IF Falsy(x) THEN Unset ELSE AttachIfParsed(parseNumericFilter(x))

\* if (q.title) filter.title = { $regex: q.title, $options: "i" }, and the
\* same test for cuisine
TextConstraint(x) == IF Falsy(x) THEN Undefined ELSE x

\* the filter once its three numeric constraints are known: [threw, filter]
FilterOf(q, rating, total_time, calories) ==
  IF "throw" \in {rating.kind, total_time.kind, calories.kind}
    THEN [threw |-> TRUE, filter |-> EmptyFilter]
    ELSE [threw |-> FALSE,
          filter |-> [title |-> TextConstraint(q.title),
                      cuisine |-> TextConstraint(q.cuisine),
                      rating |-> rating,
                      total_time |-> total_time,
                      expr |-> calories]]

\* the filter part, shared by both handlers
BuildFilter(q) ==
  FilterOf(q, NumericConstraint(q.rating), NumericConstraint(q.total_time),
           NumericConstraint(q.calories))

NotBuilt == [threw |-> FALSE, page |-> Null, limit |-> Null, sortBy |-> NoSort,
             filter |-> EmptyFilter]

Threw == [threw |-> TRUE, page |-> Null, limit |-> Null, sortBy |-> NoSort,
          filter |-> EmptyFilter]

\* getRecipes' locals once the sort part s and the filter part f are known
LocalsOf(page, limit, s, f) ==
  IF s.threw \/ f.threw THEN Threw
  ELSE [threw |-> FALSE, page |-> page, limit |-> limit, sortBy |-> s.sortBy,
        filter |-> f.filter]

\* getRecipes up to its first await
BuildGet(q) ==
  LocalsOf(ParseIntOr(q.page, 1), ParseIntOr(q.limit, 10), BuildSort(q.sort), BuildFilter(q))

\* searchRecipes up to its await: no page, no limit, no sort
BuildSearch(q) == LocalsOf(Null, Null, [threw |-> FALSE, sortBy |-> NoSort], BuildFilter(q))

(***************************************************************************)
(* The store: how a lookup evaluates the filter, sort, skip and limit that *)
(* the handlers hand to Recipe.countDocuments and Recipe.find              *)
(***************************************************************************)
\* a < b, a = b, a > b as -1, 0, 1 for the numbers a[1] / 10^a[2] and b[1] / 10^b[2]
CmpDec(a, b) ==
  LET l == a[1] * Pow10(b[2])
      r == b[1] * Pow10(a[2])
  IN  IF l < r THEN -1 ELSE IF l = r THEN 0 ELSE 1

\* a comparison operator applied to the outcome c of a three-way comparison
OpHolds(op, c) ==
  CASE op = "$gt" -> c = 1
    [] op = "$lt" -> c = -1
    [] op = "$gte" -> c >= 0
    [] op = "$lte" -> c <= 0
    [] op = "$eq" -> c = 0

\* filter.rating = { $gte: 4.5 } and the like on a stored Number: a query
\* comparison matches values of the threshold's type only, so never a null
FieldSatisfies(pred, value) ==
  \/ pred.kind = "unset"
  \/ /\ pred.kind = "pred"
     /\ value.t = "num"
     /\ OpHolds(pred.op, CmpDec(value.v, pred.val.v))

Lower(c) == CASE c = "A" -> "a" [] c = "B" -> "b" [] OTHER -> c
\* one pattern character against one character, under $options: "i"
CharMatches(p, c) == p = "." \/ Lower(p) = Lower(c)
\* { $regex: pattern, $options: "i" }: the pattern matches somewhere in text
RegexSearch(pattern, text) ==
  \E off \in 0..(Len(text) - Len(pattern)) :
    \A i \in 1..Len(pattern) : CharMatches(pattern[i], text[off + i])

\* the filter without its computed expression: "match", "nomatch" or "error"
\* (a parameter given twice reaches the store as an array, which the schema's
\* String paths cannot cast)
PlainEval(filter, rec) ==
  IF filter.title.t = "arr" \/ filter.cuisine.t = "arr" THEN "error"
  ELSE IF /\ filter.title.t = "str" => RegexSearch(filter.title.v, rec.title)
          /\ filter.cuisine.t = "str" => rec.cuisine = filter.cuisine
          /\ FieldSatisfies(filter.rating, rec.rating)
          /\ FieldSatisfies(filter.total_time, rec.total_time)
       THEN "match" ELSE "nomatch"

ExprError == [t |-> "error", v |-> <<>>]
\* $arrayElemAt: [{ $split: ["$nutrients.calories", " "] }, 0]: null for a
\* missing or null field, an error for a value that is not a string
FirstToken(calories) ==
  IF calories.t \in {"undefined", "null"} THEN Null
  ELSE IF calories.t # "str" THEN ExprError
  ELSE Str(Split(calories.v, " ")[1])
\* $trim: whitespace off both ends (a token of a split on " " has none)
Trim(x) ==
  IF x.t # "str" THEN x
  ELSE LET a == RunLen(x.v, Spaces)
           rest == Drop(x.v, a)
           b == CHOOSE n \in 0..Len(rest) :
                  /\ \A i \in n + 1..Len(rest) : rest[i] \in Spaces
                  /\ n > 0 => rest[n] \notin Spaces
       IN  Str(Take(rest, b))
\* $toDouble: null stays null; a string must read as a number in full, and
\* with no onError the conversion of any other string is an error
ToDouble(x) ==
  IF x.t \in {"null", "error"} THEN x
  ELSE LET neg == x.v # <<>> /\ Head(x.v) = "-"
           body == IF neg THEN Tail(x.v) ELSE x.v
           m == MatchNumberToEnd(body)
       IN  IF body = <<>> \/ Head(body) \in Spaces \/ m = <<>> THEN ExprError
           ELSE LET n == ParseFloat(m) IN Num(IF neg THEN 0 - n.v[1] ELSE n.v[1], n.v[2])
\* { [operator]: [x, value] } inside $expr: an expression comparison orders
\* values of different types, and null sorts below every number
ExprCompare(op, x, value) ==
  IF x.t = "null" THEN OpHolds(op, -1) ELSE OpHolds(op, CmpDec(x.v, value.v))
ExprEval(pred, rec) ==
  IF pred.kind = "unset" THEN "match"
  ELSE LET x == ToDouble(Trim(FirstToken(rec.calories)))
       IN  IF x.t = "error" THEN "error"
           ELSE IF ExprCompare(pred.op, x, pred.val) THEN "match" ELSE "nomatch"

\* one record against the whole filter; the computed expression is evaluated
\* for the records the plain constraints let through
RecordEval(filter, rec) ==
  IF PlainEval(filter, rec) # "match" THEN PlainEval(filter, rec) ELSE ExprEval(filter.expr, rec)

Matching(filter, recs) == {r \in recs : RecordEval(filter, r) = "match"}
LookupFails(filter, recs) == \E r \in recs : RecordEval(filter, r) = "error"

CharCode(c) ==
  CASE c = " " -> 32 [] c = "." -> 46 [] c = "A" -> 65 [] c = "B" -> 66
    [] c = "a" -> 97 [] c = "b" -> 98 [] OTHER -> 0
RECURSIVE CmpStr(_, _)
\* strings in the store's binary order
CmpStr(a, b) ==
  IF a = <<>> /\ b = <<>> THEN 0
  ELSE IF a = <<>> THEN -1
  ELSE IF b = <<>> THEN 1
  ELSE IF CharCode(Head(a)) < CharCode(Head(b)) THEN -1
  ELSE IF CharCode(Head(a)) > CharCode(Head(b)) THEN 1
  ELSE CmpStr(Tail(a), Tail(b))
\* a sort orders missing and null first, then numbers, then strings
TypeRank(x) == CASE x.t = "num" -> 1 [] x.t = "str" -> 2 [] OTHER -> 0
CmpValue(a, b) ==
  IF TypeRank(a) < TypeRank(b) THEN -1
  ELSE IF TypeRank(a) > TypeRank(b) THEN 1
  ELSE IF a.t = "num" THEN CmpDec(a.v, b.v)
  ELSE IF a.t = "str" THEN CmpStr(a.v, b.v)
  ELSE 0
\* the value a sort key reads from a record: a path the record lacks reads as missing
FieldValue(rec, field) ==
  CASE field = <<"title">> -> Str(rec.title)
    [] field = <<"rating">> -> rec.rating
    [] field = <<"total_time">> -> rec.total_time
    [] OTHER -> Undefined
\* ord obeys .sort(sortBy); records equal under the key come in any order,
\* and so does everything under an empty sort
IsSorted(ord, sortBy) ==
  \A k \in sortBy : \A i, j \in 1..Len(ord) :
    i < j => k.dir * CmpValue(FieldValue(ord[i], k.field), FieldValue(ord[j], k.field)) <= 0
Orderings(S) ==
  {f \in [1..Cardinality(S) -> S] : \A i, j \in 1..Cardinality(S) : i # j => f[i] # f[j]}
Abs(n) == IF n < 0 THEN 0 - n ELSE n
Min(a, b) == IF a < b THEN a ELSE b
\* .skip(skip).limit(limit): the driver sends a negative limit as its
\* magnitude; a negative skip is refused (see SkipRefused)
Slice(ord, skip, limit) == SubSeq(ord, skip + 1, Min(Len(ord), skip + Abs(limit)))
SkipOf(b) == (b.page.v[1] - 1) * b.limit.v[1]
SkipRefused(b) == SkipOf(b) < 0

\* Recipe.find(filter).sort(sortBy).skip((page - 1) * limit).limit(limit).lean():
\* every result the store may return
FindPage(b, recs) ==
  {Slice(ord, SkipOf(b), b.limit.v[1]) :
     ord \in {o \in Orderings(Matching(b.filter, recs)) : IsSorted(o, b.sortBy)}}
\* Recipe.find(filter).lean()
FindAll(b, recs) == Orderings(Matching(b.filter, recs))

(***************************************************************************)
(* Documents, the two normalisers and the write handlers                   *)
(***************************************************************************)
NumericFields == {"rating", "prep_time", "cook_time", "total_time"}

Recipe(id, title, cuisine, rating, total_time, calories) ==
  [id |-> id, title |-> title, cuisine |-> cuisine, rating |-> rating, prep_time |-> Null,
   cook_time |-> Null, total_time |-> total_time, calories |-> calories]
NoDoc == Recipe(0, <<>>, Null, Null, Null, Undefined)

\* the value of a trimmed, unsigned numeric string made of n1 digits or of
\* n1 digits, a point and n2 digits, with a digit on one side at least; NaN
\* for any other string
DecimalLiteral(s, n1, n2) ==
  IF n1 + n2 = 0 THEN NaN
  ELSE IF Len(s) = n1 THEN Num(DigitsValue(s, 0), 0)
  ELSE IF Len(s) = n1 + 1 + n2 /\ s[n1 + 1] = "."
    THEN Num(DigitsValue(Take(s, n1) \o Drop(s, n1 + 1), 0), n2)
  ELSE NaN
UnsignedNumber(s) ==
  DecimalLiteral(s, RunLen(s, Digits), RunLen(Drop(s, RunLen(s, Digits) + 1), Digits))
\* Number(string): whitespace trimmed, the empty string is 0
StringToNumber(s) ==
  IF s = <<>> THEN Num(0, 0)
  ELSE IF s = <<"N", "a", "N">> THEN NaN
  ELSE UnsignedNumber(s)
\* Number(x)
NumberOf(x) ==
  CASE x.t = "num" -> x
    [] x.t = "null" -> Num(0, 0)
    [] x.t = "str" -> StringToNumber(Trim(x).v)
    [] OTHER -> NaN

IsTheString(x, s) == x.t = "str" /\ x.v = s

\* loadRecipes, one field, n being Number(copy[f])
LoadedField(v, n) ==
  IF IsTheString(v, <<"N", "a", "N">>) \/ v.t = "undefined" \/ v.t = "null" \/ n.t = "nan"
    THEN Null ELSE n
\* addRecipe, one field, n being Number(payload[f])
AddedField(v, n) ==
  IF IsTheString(v, <<"N", "a", "N">>) \/ IsTheString(v, <<>>) \/ n.t = "nan" THEN Null
  ELSE IF v.t # "undefined" /\ v.t # "null" THEN n
  ELSE v

\* the forEach over the numeric fields, in loadRecipes and in addRecipe
NormalizeLoaded(r) ==
  [f \in DOMAIN r |-> IF f \in NumericFields THEN LoadedField(r[f], NumberOf(r[f])) ELSE r[f]]
NormalizeAdded(payload) ==
  [f \in DOMAIN payload |->
     IF f \in NumericFields THEN AddedField(payload[f], NumberOf(payload[f])) ELSE payload[f]]

CastError == [t |-> "error", v |-> <<>>]
\* the schema's { type: Number, default: null } applied to a value n being
\* Number(v): null and "" are null, a number is itself, a string that is no
\* number is refused
CastNumber(v, n) ==
  IF v.t \in {"undefined", "null"} \/ IsTheString(v, <<>>) THEN Null
  ELSE IF n.t = "nan" THEN CastError
  ELSE n
\* the schema applied to the numeric fields of a payload
CastPayload(p) ==
  [f \in DOMAIN p |-> IF f \in NumericFields THEN CastNumber(p[f], NumberOf(p[f])) ELSE p[f]]
\* title: { type: String, required: true }
TitleMissing(p) == p.title.t # "str" \/ p.title.v = <<>>

\* the body of a write request, or a record of the file: a title and the
\* numeric field f carrying v
PayloadWith(title, f, v) ==
  [[title |-> title, rating |-> Undefined, prep_time |-> Undefined, cook_time |-> Undefined,
    total_time |-> Undefined] EXCEPT ![f] = v]

\* new Recipe(payload) with the schema's defaults
NewDoc(id, c) ==
  [id |-> id, title |-> c.title.v, cuisine |-> Null, rating |-> c.rating,
   prep_time |-> c.prep_time, cook_time |-> c.cook_time, total_time |-> c.total_time,
   calories |-> Undefined]
\* the document after an update that sets field f to the cast value
Updated(doc, f, value) == [doc EXCEPT ![f] = value]

WriteResult(status, doc) == [status |-> status, doc |-> doc]

\* loadRecipes on a file holding one record
LoadRecipes ==
  /\ cleaned' = <<NormalizeLoaded(PayloadWith(Str(<<"a">>), fld, raw))>>
  /\ UNCHANGED <<store, raw, fld, nextId, written, readVars, parseVars>>

\* addRecipe: normalise the body, build the document, save it
AddRecipe ==
  /\ nextId <= MaxIds
  /\ Cardinality(store) < MaxStore
  /\ \E title \in {Str(<<"a">>), Undefined} :
       IF TitleMissing(PayloadWith(title, fld, raw))
         THEN /\ written' = WriteResult(400, NoDoc)
              /\ UNCHANGED <<store, nextId>>
         ELSE /\ written' = WriteResult(201,
                   NewDoc(nextId, CastPayload(NormalizeAdded(PayloadWith(title, fld, raw)))))
              /\ store' = store \cup {written'.doc}
              /\ nextId' = nextId + 1
  /\ UNCHANGED <<raw, fld, cleaned, readVars, parseVars>>

\* updateRecipe: Recipe.findByIdAndUpdate(id, req.body, { new: true })
UpdateRecipe ==
  /\ \E id \in 1..MaxIds :
       IF raw.t # "undefined" /\ CastNumber(raw, NumberOf(raw)).t = "error"
         THEN written' = WriteResult(400, NoDoc) /\ UNCHANGED store
       ELSE IF \A r \in store : r.id # id
         THEN written' = WriteResult(404, NoDoc) /\ UNCHANGED store
       ELSE \E r \in store :
              /\ r.id = id
              /\ written' = WriteResult(200,
                   IF raw.t = "undefined" THEN r
                   ELSE Updated(r, fld, CastNumber(raw, NumberOf(raw))))
              /\ store' = (store \ {r}) \cup {written'.doc}
  /\ UNCHANGED <<raw, fld, nextId, cleaned, readVars, parseVars>>

\* deleteRecipe: Recipe.findByIdAndDelete(id)
DeleteRecipe ==
  /\ \E id \in 1..MaxIds :
       IF \A r \in store : r.id # id
         THEN written' = WriteResult(404, NoDoc) /\ UNCHANGED store
         ELSE written' = WriteResult(200, NoDoc) /\ store' = {r \in store : r.id # id}
  /\ UNCHANGED <<raw, fld, nextId, cleaned, readVars, parseVars>>

\* no write request yet, nothing loaded, an empty store
WriteIdle ==
  /\ raw = Undefined /\ fld = "rating" /\ nextId = 1
  /\ cleaned = <<>> /\ written = WriteResult(0, NoDoc)

(***************************************************************************)
(* The read handlers, one action per await                                 *)
(***************************************************************************)
NoResponse == [status |-> 0, total |-> 0, data |-> <<>>]
Failure(code) == [status |-> code, total |-> 0, data |-> <<>>]
Success(code, total_, data) == [status |-> code, total |-> total_, data |-> data]

\* getRecipes, from the request to the call of countDocuments
GetRecipesBuild ==
  /\ route = "getRecipes" /\ hpc = "received"
  /\ built' = BuildGet(query)
  /\ IF built'.threw
       THEN hpc' = "responded" /\ response' = Failure(500)
       ELSE hpc' = "counting" /\ UNCHANGED response
  /\ UNCHANGED <<query, route, total, store, parseVars, writeVars>>

\* await Recipe.countDocuments(filter), then the call of find
GetRecipesCount ==
  /\ route = "getRecipes" /\ hpc = "counting"
  /\ IF LookupFails(built.filter, store)
       THEN hpc' = "responded" /\ response' = Failure(500) /\ UNCHANGED total
       ELSE /\ total' = Cardinality(Matching(built.filter, store))
            /\ hpc' = "finding"
            /\ UNCHANGED response
  /\ UNCHANGED <<query, route, built, store, parseVars, writeVars>>

\* await Recipe.find(...), then res.json({ page, limit, total, data })
GetRecipesFind ==
  /\ route = "getRecipes" /\ hpc = "finding"
  /\ IF SkipRefused(built) \/ LookupFails(built.filter, store)
       THEN response' = Failure(500)
       ELSE \E data \in FindPage(built, store) : response' = Success(200, total, data)
  /\ hpc' = "responded"
  /\ UNCHANGED <<query, route, built, total, store, parseVars, writeVars>>

\* searchRecipes, from the request to the call of find
SearchRecipesBuild ==
  /\ route = "searchRecipes" /\ hpc = "received"
  /\ built' = BuildSearch(query)
  /\ IF built'.threw
       THEN hpc' = "responded" /\ response' = Failure(500)
       ELSE hpc' = "finding" /\ UNCHANGED response
  /\ UNCHANGED <<query, route, total, store, parseVars, writeVars>>

\* await Recipe.find(filter).lean(), then res.json({ data: results })
SearchRecipesFind ==
  /\ route = "searchRecipes" /\ hpc = "finding"
  /\ IF LookupFails(built.filter, store)
       THEN response' = Failure(500)
       ELSE \E data \in FindAll(built, store) : response' = Success(200, 0, data)
  /\ hpc' = "responded"
  /\ UNCHANGED <<query, route, built, total, store, parseVars, writeVars>>

NoQuery == [p \in QueryParams |-> Undefined]
\* no request in flight
ReadIdle ==
  /\ query = NoQuery /\ route = "none" /\ hpc = "idle"
  /\ built = NotBuilt /\ total = 0 /\ response = NoResponse
ParseIdle == filterStr = Undefined /\ parsed = NoPredicate /\ ppc = "idle"

\* what a request may write before the number of a numeric filter
GrammarOps == {<<>>, <<">", "=">>, <<"<", "=">>, <<">">>, <<"<">>, <<"=">>}

(***************************************************************************)
(* SpecParse: parseNumericFilter on every raw string up to MaxLen          *)
(***************************************************************************)
\* operators, whitespace, digits, the point, a sign, a letter and a comma
FilterChars == {">", "<", "=", " ", "5", "0", ".", "-", "e", ","}
FilterInputs == {Undefined, Null} \cup {Str(s) : s \in SeqsUpTo(FilterChars, MaxLen)}

InitParse ==
  /\ filterStr \in FilterInputs
  /\ parsed = NoPredicate
  /\ ppc = "call"
  /\ ReadIdle /\ WriteIdle /\ store = {}

ParseStep ==
  /\ ppc = "call"
  /\ parsed' = parseNumericFilter(filterStr)
  /\ ppc' = "returned"
  /\ UNCHANGED <<filterStr, apiVars>>

NextParse == ParseStep

SpecParse == InitParse /\ [][NextParse]_vars

(***************************************************************************)
(* SpecQuery: one request, given to getRecipes or to searchRecipes, over a *)
(* fixed collection.  The request carries the parameters of one group:     *)
(* paging, sort, numeric filters or text.                                  *)
(***************************************************************************)
SampleStore ==
  { Recipe(1, <<"a", "b">>, Str(<<"a">>), Num(5, 0), Num(50, 0), Str(<<"5", " ", "k">>)),
    Recipe(2, <<"A", ".">>, Str(<<"b">>), Num(55, 1), Num(5, 0), Str(<<"5", "0">>)),
    Recipe(3, <<"b">>, Null, Null, Null, Str(<<"5">>)) }

\* a parameter given twice (?page=2&page=2) arrives as an array
NumChars == {"-", "0", "2", "a"}
NumInputs == {Undefined, Arr(<<"2", ",", "2">>)}
               \cup {Str(s) : s \in SeqsUpTo(NumChars, MaxNumLen)}
\* a sort string in pieces: field names, the separator and a direction
SortPieces == {"title", "rating", "__proto__", ":", "asc"}
SortInputs == {Undefined, Arr(<<"title", ",", "title">>)}
                \cup {Str(s) : s \in SeqsUpTo(SortPieces, MaxSortLen)}
QueryFilterChars == {">", "=", "5", "a"}
QueryFilterInputs == {Undefined, Arr(<<"5", ",", "5">>)}
                       \cup {Str(s) : s \in SeqsUpTo(QueryFilterChars, MaxFilterLen)}
TitleInputs == {Undefined, Str(<<>>), Str(<<"a">>), Str(<<"A", ".">>)}
CuisineInputs == {Undefined, Str(<<"a">>), Str(<<"b">>)}
CaloriesInputs == {Undefined, Str(<<"<", "=", "5">>), Str(<<"a">>)}

PagingQueries == {[NoQuery EXCEPT !.page = p, !.limit = l] : p \in NumInputs, l \in NumInputs}
SortQueries == {[NoQuery EXCEPT !.sort = s] : s \in SortInputs}
FilterQueries ==
  {[NoQuery EXCEPT !.rating = r, !.total_time = tt] : r \in QueryFilterInputs, tt \in QueryFilterInputs}
TextQueries ==
  {[NoQuery EXCEPT !.title = ti, !.cuisine = cu, !.calories = ca] :
     ti \in TitleInputs, cu \in CuisineInputs, ca \in CaloriesInputs}
InitQuery ==
  /\ ParseIdle
  /\ \/ query \in PagingQueries
     \/ query \in SortQueries
     \/ query \in FilterQueries
     \/ query \in TextQueries
  /\ route \in {"getRecipes", "searchRecipes"}
  /\ hpc = "received"
  /\ built = NotBuilt /\ total = 0 /\ response = NoResponse
  /\ store = SampleStore
  /\ WriteIdle

NextQuery ==
  \/ GetRecipesBuild
  \/ GetRecipesCount
  \/ GetRecipesFind
  \/ SearchRecipesBuild
  \/ SearchRecipesFind

SpecQuery == InitQuery /\ [][NextQuery]_vars

(***************************************************************************)
(* SpecMatch: one request with a calories or a title parameter, over a     *)
(* collection whose stored calories or title varies                        *)
(***************************************************************************)
\* a digit, a zero, the blank before a unit, a unit letter and a sign
CalChars == {"5", "0", " ", "k", "-"}
\* nutrients.calories as stored: missing, null or a string
StoredCalories == {Undefined, Null}
                    \cup {Str(s) : s \in SeqsUpTo(CalChars, MaxCalLen)}
CaloriesQueries ==
  {[NoQuery EXCEPT !.calories = Str(op \o <<"5">>)] : op \in GrammarOps}
\* letters in both cases and the pattern character "."
TitleChars == {"a", "A", "b", "."}
TitleQueries ==
  {[NoQuery EXCEPT !.title = Str(s)] : s \in SeqsUpTo(TitleChars, MaxPatternLen) \ {<<>>}}
StoredTitles == SeqsUpTo(TitleChars, MaxTitleLen) \ {<<>>}

InitMatch ==
  /\ ParseIdle
  /\ \/ /\ query \in CaloriesQueries
        /\ \E c \in StoredCalories :
             store = { Recipe(1, <<"a">>, Null, Null, Null, Str(<<"5", " ", "k">>)),
                       Recipe(2, <<"b">>, Null, Null, Null, c) }
     \/ /\ query \in TitleQueries
        /\ \E ti \in StoredTitles : store = { Recipe(1, ti, Null, Null, Null, Undefined) }
  /\ route \in {"getRecipes", "searchRecipes"}
  /\ hpc = "received"
  /\ built = NotBuilt /\ total = 0 /\ response = NoResponse
  /\ WriteIdle

SpecMatch == InitMatch /\ [][NextQuery]_vars

(***************************************************************************)
(* SpecCrud: a getRecipes request in flight while write requests and the   *)
(* loader run, all carrying the raw value raw in the numeric field fld     *)
(***************************************************************************)
RawChars == {"5", ".", "a", " "}
RawValues == {Undefined, Null, Num(5, 0), Str(<<"N", "a", "N">>)}
               \cup {Str(s) : s \in SeqsUpTo(RawChars, MaxRawLen)}
CrudQueries ==
  { NoQuery,
    [NoQuery EXCEPT !.limit = Str(<<"1">>)],
    [NoQuery EXCEPT !.limit = Str(<<"1">>), !.page = Str(<<"2">>)],
    [NoQuery EXCEPT !.rating = Str(<<">", "=", "5">>)] }

InitCrud ==
  /\ ParseIdle
  /\ query \in CrudQueries
  /\ route = "getRecipes" /\ hpc = "received"
  /\ built = NotBuilt /\ total = 0 /\ response = NoResponse
  /\ store = {}
  /\ raw \in RawValues /\ fld \in NumericFields /\ nextId = 1
  /\ cleaned = <<>> /\ written = WriteResult(0, NoDoc)

NextCrud ==
  \/ GetRecipesBuild
  \/ GetRecipesCount
  \/ GetRecipesFind
  \/ LoadRecipes
  \/ AddRecipe
  \/ UpdateRecipe
  \/ DeleteRecipe

SpecCrud == InitCrud /\ [][NextCrud]_vars

(***************************************************************************)
(* Claims about the query-building part                                    *)
(***************************************************************************)
Built == hpc \notin {"idle", "received"}
IsArray(x) == x.t = "arr"

\* C3: for every mapping of the query parameters to values the transport
\* layer can produce, the query-building part of getRecipes and of
\* searchRecipes completes without raising an error.
C3_BuildNeverThrows == Built => ~built.threw

\* C4: the page and the limit getRecipes uses are positive integers, so that
\* the skip (page - 1) * limit is never negative; they are 1 and 10 when the
\* parameter is absent.
C4_PositivePageAndLimit ==
  (Built /\ route = "getRecipes" /\ ~built.threw) =>
    /\ built.page.t = "num" /\ built.page.v[1] >= 1
    /\ built.limit.t = "num" /\ built.limit.v[1] >= 1
    /\ SkipOf(built) >= 0
    /\ query.page = Undefined => built.page = Num(1, 0)
    /\ query.limit = Undefined => built.limit = Num(10, 0)

\* C5: in getRecipes the sort specification has exactly one key: rating
\* descending when the sort parameter is absent, and for a string
\* field:direction that field, ascending exactly when direction is "asc".
C5_OneSortKey ==
  (Built /\ route = "getRecipes" /\ ~built.threw) =>
    /\ Cardinality(built.sortBy) = 1
    /\ query.sort = Undefined => built.sortBy = {[field |-> <<"rating">>, dir |-> -1]}
    /\ \A field, direction \in SeqsUpTo(SortPieces \ {":"}, 1) :
         query.sort = Str(field \o <<":">> \o direction) =>
           built.sortBy = {[field |-> field, dir |-> IF direction = <<"asc">> THEN 1 ELSE -1]}

\* C6: for rating and for total_time, the filter built by getRecipes and by
\* searchRecipes constrains the field exactly when the parameter is present
\* and parseNumericFilter returns a predicate for it, and the constraint is
\* then that predicate; a value the parser returns no predicate for leaves the
\* field unconstrained and raises nothing (only a parameter that is no string
\* makes the build raise).
C6_NumericConstraints ==
  Built =>
    /\ ~built.threw =>
         \A f \in {"rating", "total_time"} :
           /\ built.filter[f] # Unset <=>
                (query[f] # Undefined /\ parseNumericFilter(query[f]).kind = "pred")
           /\ built.filter[f] # Unset => built.filter[f] = parseNumericFilter(query[f])
    /\ built.threw => \E f \in QueryParams : IsArray(query[f])
C6_Witness ==
  /\ hpc = "responded" /\ route = "searchRecipes" /\ response.status = 200
  /\ query.rating = Str(<<">", "=">>)
  /\ query.total_time = Str(<<">", "5">>)
  /\ built.filter.rating = Unset
  /\ built.filter.total_time = Pred("$gt", Num(5, 0))
C6_WitnessGet ==
  /\ hpc = "responded" /\ route = "getRecipes" /\ response.status = 200
  /\ query.rating = Str(<<"a">>)
  /\ built.filter.rating = Unset

(***************************************************************************)
(* Claims about what a lookup matches                                      *)
(***************************************************************************)
Responded == hpc = "responded"
DataIds == {response.data[i].id : i \in 1..Len(response.data)}

\* the number the claim reads from a stored calories value: the value itself
\* when it is a number, else its first space-separated token when that token
\* reads as a number; NaN when there is none
ClaimedNumber(c) ==
  IF c.t = "num" THEN c
  ELSE IF c.t # "str" THEN NaN
  ELSE ToDouble(Str(Split(c.v, " ")[1]))
ClaimedCaloriesMatch(pred, rec) ==
  /\ ClaimedNumber(rec.calories).t = "num"
  /\ OpHolds(pred.op, CmpDec(ClaimedNumber(rec.calories).v, pred.val.v))

\* C7: with a calories parameter that parses to a predicate, the lookup
\* succeeds and returns exactly the records whose stored calories, read as the
\* number in its first space-separated token, satisfies the predicate; a
\* record whose value is missing or is no number is left out.
C7_CaloriesMatch ==
  (Responded /\ parseNumericFilter(query.calories).kind = "pred") =>
    /\ response.status = 200
    /\ DataIds = {r.id : r \in {x \in store :
                     ClaimedCaloriesMatch(parseNumericFilter(query.calories), x)}}

\* text contains part, letters compared without regard to case
ContainsIgnoringCase(text, part) ==
  \E off \in 0..(Len(text) - Len(part)) :
    \A i \in 1..Len(part) : Lower(text[off + i]) = Lower(part[i])

\* C8: for a non-empty title parameter, the lookup returns exactly the
\* records whose title contains the parameter's text, compared
\* case-insensitively, whatever characters the text holds.
C8_TitleSubstring ==
  (Responded /\ query.title.t = "str" /\ query.title.v # <<>>) =>
    /\ response.status = 200
    /\ DataIds = {r.id : r \in {x \in store : ContainsIgnoringCase(x.title, query.title.v)}}

(***************************************************************************)
(* Claims about the stored records and about a page read under writes      *)
(***************************************************************************)
NumberOrNull(x) == x.t \in {"num", "null"}

\* C9: after any sequence of loadRecipes, addRecipe, updateRecipe and
\* deleteRecipe, every record produced or stored has each of rating,
\* prep_time, cook_time and total_time a number or null, and loadRecipes and
\* addRecipe map the same raw field value to the same normalized value.
C9_NormalizedAlike ==
  /\ \A r \in store : \A f \in NumericFields : NumberOrNull(r[f])
  /\ \A i \in 1..Len(cleaned) : \A f \in NumericFields : NumberOrNull(cleaned[i][f])
  /\ (cleaned # <<>> /\ written.status = 201) =>
       \A f \in NumericFields : cleaned[1][f] = written.doc[f]

\* C10: in every getRecipes response, under any interleaving with writes,
\* data holds at most limit records, each satisfying the filter, data is a
\* page of the sorted matching records, and total is the number of records
\* matching the filter in the store state data was read from, so that data is
\* never longer than total.
C10_PageAndTotalAgree ==
  [][(hpc = "finding" /\ hpc' = "responded" /\ response'.status = 200) =>
       /\ Len(response'.data) <= Abs(built.limit.v[1])
       /\ \A i \in 1..Len(response'.data) :
            response'.data[i] \in Matching(built.filter, store)
       /\ response'.data \in FindPage(built, store)
       /\ response'.total = Cardinality(Matching(built.filter, store))
       /\ Len(response'.data) <= response'.total]_vars

(***************************************************************************)
(* The grammar of section 4.1, stated by decomposition: s is the operator  *)
(* op, k whitespace characters, n1 digits and then either nothing or a     *)
(* point and at least one digit.                                           *)
(***************************************************************************)
AllIn(s, S) == \A i \in 1..Len(s) : s[i] \in S
Decomposes(s, op, k, n1) ==
  LET a == Len(op)
      rest == Len(s) - (a + k + n1)
  IN  /\ rest = 0 \/ rest >= 2
      /\ Take(s, a) = op
      /\ \A i \in a + 1..a + k : s[i] \in Spaces
      /\ \A i \in a + k + 1..a + k + n1 : s[i] \in Digits
      /\ rest >= 2 => /\ s[a + k + n1 + 1] = "."
                      /\ \A i \in a + k + n1 + 2..Len(s) : s[i] \in Digits
InGrammar(s) ==
  \E op \in GrammarOps, k \in 0..Len(s), n1 \in 1..Len(s) : Decomposes(s, op, k, n1)
OperatorWritten(op) ==
  CASE op = <<">">> -> "$gt" [] op = <<"<">> -> "$lt" [] op = <<">", "=">> -> "$gte"
    [] op = <<"<", "=">> -> "$lte" [] op = <<"=">> -> "$eq" [] op = <<>> -> "$eq"
\* the number m / 10^e equals the digits ip.fp read as a decimal
EqualsWritten(val, ip, fp) ==
  /\ val.t = "num"
  /\ val.v[1] * Pow10(Len(fp)) = DigitsValue(ip \o fp, 0) * Pow10(val.v[2])

\* C1: for every string made of an optional operator, optional whitespace and
\* a number digits[.digits], parseNumericFilter returns one predicate, whose
\* operator is the one written (a two-character operator is not read as a
\* one-character operator followed by "=") and whose threshold is the number
\* written.
C1_ParsesGrammar ==
  (ppc = "returned" /\ filterStr.t = "str") =>
    \A op \in GrammarOps, k \in 0..Len(filterStr.v), n1 \in 1..Len(filterStr.v) :
      Decomposes(filterStr.v, op, k, n1) =>
        LET a == Len(op) + k
            ip == SubSeq(filterStr.v, a + 1, a + n1)
            fp == SubSeq(filterStr.v, a + n1 + 2, Len(filterStr.v))
        IN  /\ parsed.kind = "pred"
            /\ parsed.op = OperatorWritten(op)
            /\ EqualsWritten(parsed.val, ip, fp)
C1_Witness ==
  /\ ppc = "returned"
  /\ filterStr = Str(<<">", "=", " ", "5">>)
  /\ parsed = Pred("$gte", Num(5, 0))

\* C2: for an input that is empty, null, absent or a string that does not
\* match the grammar over its full length, parseNumericFilter returns no
\* predicate and raises no error.
C2_RejectsOthers ==
  (ppc = "returned" /\ (filterStr.t # "str" \/ ~InGrammar(filterStr.v))) =>
    parsed = NoPredicate
C2_Witness ==
  /\ ppc = "returned"
  /\ filterStr = Str(<<"5", ".", "5", ".">>)
  /\ parsed = NoPredicate
C2_WitnessSigned ==
  /\ ppc = "returned"
  /\ filterStr = Str(<<"-", "5">>)
  /\ parsed = NoPredicate

====
